---- MODULE Spec2Model ----
(***************************************************************************)
(* State-machine model of src/index.js: an Express server with the route   *)
(* handlers /api/products, /api/sync-products, /api/recommend/trending,    *)
(* /api/purchase (POST), /api/purchases (GET), /api/purchase/:productCode  *)
(* (DELETE).  Every await in a handler is a point where other requests may *)
(* run; the code between two awaits is one atomic action.                  *)
(***************************************************************************)
EXTENDS Integers, Sequences, FiniteSets, TLC

\* ------------------------------------------------------------- bounds
MaxRequests == 3      \* requests accepted in one behaviour of the purchase handlers
MaxServed == 2        \* requests accepted in one behaviour of the whole server
MaxReads == 1         \* requests accepted in one behaviour of the catalog handlers
MaxClock == 1         \* values of the store's clock: 0..MaxClock
MaxShort == 2         \* longest catalog enumerated field by field
MaxExtra == 2         \* generated catalogs run up to PageSize + MaxExtra
MaxSeed == 1          \* seeds of the pseudo-random generator: 0..MaxSeed
MaxOffset == 1        \* rotations of the collaborators' hit lists

\* ---------------------------------------------------- program constants
PageSize == 50        \* filtered.slice(0, 50)
TrendingMax == 8      \* maxRecommendations, hitsPerPage, slice(0, 8)
EcoThreshold == 80    \* environmental_score_data?.score >= 80
PopularityRange == 100

\* The requests the server has in flight at the same time.
Slots == {"s1", "s2"}
UserIds == {"u1", "u2"}

\* JavaScript's undefined, for string-valued fields.
Undefined == "<undefined>"
\* JavaScript's undefined, for number-valued fields.
NoNumber == -1

\* Truthiness of a string-or-undefined value: undefined and "" are falsy.
Truthy(v) == v \notin {Undefined, ""}

\* a || b on string-or-undefined values.
OrElse(a, b) == IF Truthy(a) THEN a ELSE b

\* a || b on number-or-undefined values: undefined and 0 are falsy.
NumOrElse(a, b) == IF a \notin {NoNumber, 0} THEN a ELSE b

Min(a, b) == IF a < b THEN a ELSE b

\* Array.prototype.slice(0, end) on a sequence.
Slice(seq, end) == SubSeq(seq, 1, Min(Len(seq), end))

\* The bijections of 1..n, as the orders a result set may come in.
Perms(n) == {p \in [1..n -> 1..n] : \A i, j \in 1..n : p[i] = p[j] => i = j}

VARIABLES
  users,      \* relation users(id, email)
  purchases,  \* relation purchases(...), in physical order
  now,        \* the store's clock when it last assigned a purchased_at
  reqs,       \* the requests in flight, one per slot
  nreq,       \* requests accepted so far
  budget,     \* requests the behaviour accepts in all
  recorded,   \* per user: purchase rows inserted so far
  removed,    \* per user and product code: purchase rows deleted so far
  catalog,    \* the file products.json
  index,      \* the documents of the search index eco_products
  alive,      \* the server process is running
  out         \* the request answered by the step just taken, or Idle

vars == <<users, purchases, now, reqs, nreq, budget, recorded, removed, catalog, index, alive, out>>

storeVars == <<users, purchases, recorded, removed, budget>>

\* ------------------------------------------------------------ responses
NoBody == [tag |-> "none"]

Idle ==
  [kind |-> "idle", pc |-> "idle", userId |-> "", productCode |-> "",
   reqBody |-> NoBody, email |-> Undefined, status |-> 0, body |-> NoBody,
   sent |-> 0, rows |-> <<>>, items |-> <<>>, docs |-> <<>>,
   calls |-> <<>>, failed |-> {}, wrote |-> {}]

\* res.status(status).json(json): the request is answered.
Respond(r, status, json) ==
  [r EXCEPT !.pc = "done", !.status = status, !.body = json, !.sent = @ + 1]

JsonArray(elems) == [tag |-> "array", elems |-> elems]

ErrorBody(msg) == [tag |-> "object", error |-> msg]

\* Mutant of Catch: the body carries the message under another key.
CatchWithoutErrorField(r, msg) ==
  Respond(r, 500, [tag |-> "object", message |-> msg])

\* catch (err) { res.status(500).json({ error: err.message }) }
Catch(r, msg) == Respond(r, 500, ErrorBody(msg))

\* An external call is issued / an external call has thrown.
Called(r, call) == [r EXCEPT !.calls = Append(@, call)]

Threw(r, call) == [r EXCEPT !.failed = @ \cup {call}]

HasError(json) == json.tag = "object" /\ "error" \in DOMAIN json

\* The handler of slot s has run up to its next await, or to its response.
Step(s, r) ==
  IF r.pc = "done"
    THEN reqs' = [reqs EXCEPT ![s] = Idle] /\ out' = r
    ELSE reqs' = [reqs EXCEPT ![s] = r] /\ out' = Idle

\* Express hands a new request to its handler, which runs up to r.
Accept(s, r) ==
  /\ alive
  /\ reqs[s].pc = "idle"
  /\ nreq < budget
  /\ nreq' = nreq + 1
  /\ Step(s, r)

\* ---------------------------------------------------------------- store
PurchaseBodies ==
  {[product_code |-> "A", product_name |-> "nA", price |-> 10, image_url |-> "iA"],
   [product_code |-> "B", product_name |-> "nB", price |-> 20, image_url |-> "iB"]}

ProductCodes == {b.product_code : b \in PurchaseBodies}

\* user.emailAddresses, as the identity provider may return it.
IdentityResults == {<<>>, <<"e1">>, <<"e2">>, <<"e2", "e1">>}

\* user.emailAddresses[0]?.emailAddress
FirstEmail(addrs) == IF Len(addrs) = 0 THEN Undefined ELSE addrs[1]

\* Mutant of EmailMissing: the check is left out.
EmailMissingNever(email) == FALSE

\* if (!email) throw new Error("User email not found")
EmailMissing(email) == ~Truthy(email)

\* Mutant of UpsertUser: ON CONFLICT(id) DO NOTHING.
UpsertUserDoNothing(us, id, email) ==
  IF \E r \in us : r.id = id THEN us ELSE us \cup {[id |-> id, email |-> email]}

\* Mutant of UpsertUser: UPDATE users SET email=$2 WHERE id=$1.
UpsertUserUpdateOnly(us, id, email) ==
  {IF r.id = id THEN [r EXCEPT !.email = email] ELSE r : r \in us}

\* INSERT INTO users(id,email) VALUES($1,$2)
\*   ON CONFLICT(id) DO UPDATE SET email=EXCLUDED.email
UpsertUser(us, id, email) ==
  IF \E r \in us : r.id = id
    THEN {IF r.id = id THEN [r EXCEPT !.email = email] ELSE r : r \in us}
    ELSE us \cup {[id |-> id, email |-> email]}

\* INSERT INTO purchases(user_id,product_code,product_name,price,image_url)
\* VALUES(...): purchased_at is assigned by the store.
InsertPurchase(ps, id, b, at) ==
  Append(ps, [user_id |-> id, product_code |-> b.product_code,
              product_name |-> b.product_name, price |-> b.price,
              image_url |-> b.image_url, purchased_at |-> at])

\* WHERE user_id=$1
OwnedBy(row, id) == row.user_id = id

\* Mutant of InOrder: ORDER BY purchased_at ASC.
InOrderAscending(first, second) == first.purchased_at <= second.purchased_at

\* ORDER BY purchased_at DESC: what the clause demands of two adjacent rows.
InOrder(first, second) == first.purchased_at >= second.purchased_at

\* SELECT product_code,product_name,price,image_url
Projected(row) ==
  [product_code |-> row.product_code, product_name |-> row.product_name,
   price |-> row.price, image_url |-> row.image_url]

\* The result sets of SELECT ... FROM purchases WHERE user_id=$1
\* ORDER BY purchased_at DESC: the user's rows in any order the clause allows.
SelectPurchases(ps, id) ==
  LET own == SelectSeq(ps, LAMBDA row : OwnedBy(row, id))
      n == Len(own)
  IN  {rs \in {[i \in 1..n |-> own[p[i]]] : p \in Perms(n)} :
         \A i \in 1..(n - 1) : InOrder(rs[i], rs[i + 1])}

\* WHERE user_id=$1 AND product_code=$2
DeleteMatches(row, id, code) == row.user_id = id /\ row.product_code = code

\* DELETE ... RETURNING *: the rows removed, in any order.
DeleteReturning(ps, id, code) ==
  LET hit == SelectSeq(ps, LAMBDA row : DeleteMatches(row, id, code))
      n == Len(hit)
  IN  {[i \in 1..n |-> hit[p[i]]] : p \in Perms(n)}

DeleteRemaining(ps, id, code) ==
  SelectSeq(ps, LAMBDA row : ~DeleteMatches(row, id, code))

\* Mutant of NothingDeleted: rowCount <= 1.
NothingDeletedAtMostOne(rowCount) == rowCount <= 1

\* if (result.rowCount === 0) return res.status(404)...
NothingDeleted(rowCount) == rowCount = 0

\* res.json({ success: true, deleted: result.rows[0] })
DeletedBody(rows) == [tag |-> "object", success |-> TRUE, deleted |-> rows[1]]

\* POST /api/purchase: the handler runs up to its first await.
StartPurchase(s) ==
  \E u \in UserIds, b \in PurchaseBodies :
    /\ Accept(s, Called([Idle EXCEPT !.kind = "purchase", !.pc = "getUser",
                                      !.userId = u, !.reqBody = b], "getUser"))
    /\ UNCHANGED <<storeVars, now, catalog, index, alive>>

\* clerkClient.users.getUser(userId) settles.
GetUserReturns(s) ==
  LET r == reqs[s] IN
  /\ r.kind = "purchase" /\ r.pc = "getUser"
  /\ \/ Step(s, Catch(Threw(r, "getUser"), "identity lookup failed"))
     \/ \E addrs \in IdentityResults :
          LET email == FirstEmail(addrs) IN
          Step(s, IF EmailMissing(email)
                    THEN Catch([r EXCEPT !.email = email], "User email not found")
                    ELSE Called([r EXCEPT !.email = email, !.pc = "upsert"], "upsert"))
  /\ UNCHANGED <<nreq, storeVars, now, catalog, index, alive>>

\* The user upsert settles.
UpsertReturns(s) ==
  LET r == reqs[s] IN
  /\ r.kind = "purchase" /\ r.pc = "upsert"
  /\ \/ /\ Step(s, Catch(Threw(r, "upsert"), "store error"))
        /\ UNCHANGED users
     \/ /\ users' = UpsertUser(users, r.userId, r.email)
        /\ Step(s, Called([r EXCEPT !.pc = "insert",
                                     !.wrote = IF users' # users THEN @ \cup {"users"} ELSE @],
                           "insert"))
  /\ UNCHANGED <<nreq, budget, purchases, recorded, removed, now, catalog, index, alive>>

\* The purchase insert settles.
InsertReturns(s) ==
  LET r == reqs[s] IN
  /\ r.kind = "purchase" /\ r.pc = "insert"
  /\ \/ /\ Step(s, Catch(Threw(r, "insert"), "store error"))
        /\ UNCHANGED <<purchases, recorded, now>>
     \/ \E at \in now..MaxClock :
        /\ now' = at
        /\ purchases' = InsertPurchase(purchases, r.userId, r.reqBody, at)
        /\ recorded' = [recorded EXCEPT ![r.userId] = @ + 1]
        /\ Step(s, Respond([r EXCEPT !.wrote = @ \cup {"purchases"}], 200,
                            [tag |-> "object", success |-> TRUE]))
  /\ UNCHANGED <<nreq, budget, users, removed, catalog, index, alive>>

\* GET /api/purchases
StartList(s) ==
  \E u \in UserIds :
    /\ Accept(s, Called([Idle EXCEPT !.kind = "list", !.pc = "select", !.userId = u],
                        "select"))
    /\ UNCHANGED <<storeVars, now, catalog, index, alive>>

SelectReturns(s) ==
  LET r == reqs[s] IN
  /\ r.kind = "list" /\ r.pc = "select"
  /\ \/ Step(s, Catch(Threw(r, "select"), "store error"))
     \/ \E rs \in SelectPurchases(purchases, r.userId) :
          Step(s, Respond([r EXCEPT !.rows = rs], 200,
                          JsonArray([i \in 1..Len(rs) |-> Projected(rs[i])])))
  /\ UNCHANGED <<nreq, storeVars, now, catalog, index, alive>>

\* DELETE /api/purchase/:productCode
StartDelete(s) ==
  \E u \in UserIds, c \in ProductCodes :
    /\ Accept(s, Called([Idle EXCEPT !.kind = "delete", !.pc = "delete",
                                      !.userId = u, !.productCode = c], "delete"))
    /\ UNCHANGED <<storeVars, now, catalog, index, alive>>

DeleteReturns(s) ==
  LET r == reqs[s] IN
  /\ r.kind = "delete" /\ r.pc = "delete"
  /\ \/ /\ Step(s, Catch(Threw(r, "delete"), "store error"))
        /\ UNCHANGED <<purchases, removed>>
     \/ \E rs \in DeleteReturning(purchases, r.userId, r.productCode) :
          /\ purchases' = DeleteRemaining(purchases, r.userId, r.productCode)
          /\ removed' = [removed EXCEPT ![r.userId][r.productCode] = @ + Len(rs)]
          /\ Step(s, IF NothingDeleted(Len(rs))
                        THEN Respond([r EXCEPT !.rows = rs], 404, ErrorBody("Not found"))
                        ELSE Respond([r EXCEPT !.rows = rs, !.wrote = @ \cup {"purchases"}],
                                     200, DeletedBody(rs)))
  /\ UNCHANGED <<nreq, budget, users, recorded, now, catalog, index, alive>>

\* -------------------------------------------------------------- catalog
\* A product of products.json.  environmental_score_data is an optional
\* object; its grade and score are optional too.
Product(code, name, image, front, nutri, esd) ==
  [code |-> code, product_name |-> name, image_url |-> image,
   image_front_url |-> front, nutriscore_grade |-> nutri,
   environmental_score_data |-> esd, price_inr |-> 120, category |-> "food"]

Esd(grade, score) == [present |-> TRUE, grade |-> grade, score |-> score]

NoEsd == [present |-> FALSE, grade |-> Undefined, score |-> NoNumber]

\* p.environmental_score_data?.grade
EsdGrade(p) ==
  IF p.environmental_score_data.present
    THEN p.environmental_score_data.grade ELSE Undefined

\* p.environmental_score_data?.score
EsdScore(p) ==
  IF p.environmental_score_data.present
    THEN p.environmental_score_data.score ELSE NoNumber

\* The predicate of products.filter(...) in GET /api/products.
PassesFilter(p) ==
  /\ Truthy(p.code)
  /\ Truthy(p.product_name)
  /\ (Truthy(p.image_url) \/ Truthy(p.image_front_url))
  /\ Truthy(p.nutriscore_grade)
  /\ EsdGrade(p) # "unknown"

\* Array.prototype.filter with PassesFilter: one pass, in index order.
FilterProducts(products) ==
  LET kept[i \in 0..Len(products)] ==
        IF i = 0 THEN <<>>
        ELSE IF PassesFilter(products[i]) THEN Append(kept[i - 1], products[i])
        ELSE kept[i - 1]
  IN  kept[Len(products)]

\* Mutant of FirstPage: slice(0, 51).
FirstPageOffByOne(filtered) == Slice(filtered, PageSize + 1)

\* filtered.slice(0, 50)
FirstPage(filtered) == Slice(filtered, PageSize)

\* p.environmental_score_data?.score >= 80 (undefined >= 80 is false)
IsEco(p) == EsdScore(p) # NoNumber /\ EsdScore(p) >= EcoThreshold

\* Math.random(): the k-th draw of a generator started from seed.
Random(seed, k) ==
  LET x[i \in 0..k] == IF i = 0 THEN seed ELSE (x[i - 1] * 37 + 11) % PopularityRange
  IN  x[k]

\* The document sync-products builds of the k-th eco product.
Enriched(p, seed, k) ==
  [objectID |-> p.code, product_name |-> p.product_name,
   image_url |-> OrElse(p.image_url, p.image_front_url),
   nutriscore_grade |-> p.nutriscore_grade,
   environmental_score |-> EsdScore(p), environmental_grade |-> EsdGrade(p),
   price |-> p.price_inr, category |-> p.category,
   popularity |-> Random(seed, k)]

\* products.filter(p => p.environmental_score_data?.score >= 80)
FilterEco(products) ==
  LET kept[i \in 0..Len(products)] ==
        IF i = 0 THEN <<>>
        ELSE IF IsEco(products[i]) THEN Append(kept[i - 1], products[i])
        ELSE kept[i - 1]
  IN  kept[Len(products)]

\* products.filter(...).map(...) in POST /api/sync-products: Math.random is
\* drawn once for each document, in order.
EnrichAll(products, seed) ==
  LET eco == FilterEco(products)
  IN  [k \in 1..Len(eco) |-> Enriched(eco[k], seed, k)]

\* saveObjects: each document replaces the one with its objectID.
SaveObjects(idx, docs) ==
  LET last(i) == \A j \in (i + 1)..Len(docs) : docs[j].objectID # docs[i].objectID
  IN  {d \in idx : \A i \in 1..Len(docs) : docs[i].objectID # d.objectID}
        \cup {docs[i] : i \in {k \in 1..Len(docs) : last(k)}}

\* fs.readFileSync + JSON.parse + the first use of products.
ReadCatalog(file) ==
  CASE file.state = "missing" ->
         [ok |-> FALSE, error |-> "ENOENT: no such file or directory", products |-> <<>>]
    [] file.state = "badjson" ->
         [ok |-> FALSE, error |-> "Unexpected token in JSON", products |-> <<>>]
    [] file.state = "noproducts" ->
         [ok |-> FALSE, error |-> "Cannot read properties of undefined", products |-> <<>>]
    [] OTHER -> [ok |-> TRUE, error |-> "", products |-> file.products]

\* GET /api/products: the handler has no await and runs in one step.
GetProducts(s) ==
  LET r == Called([Idle EXCEPT !.kind = "products"], "readFile")
      file == ReadCatalog(catalog)
  IN  /\ Accept(s, IF file.ok
                     THEN Respond(r, 200, JsonArray(FirstPage(FilterProducts(file.products))))
                     ELSE Catch(Threw(r, "readFile"), file.error))
      /\ UNCHANGED <<storeVars, now, catalog, index, alive>>

\* POST /api/sync-products, up to the await of saveObjects.
StartSync(s) ==
  \E seed \in 0..MaxSeed :
    LET r == Called([Idle EXCEPT !.kind = "sync"], "readFile")
        file == ReadCatalog(catalog)
    IN  /\ Accept(s, IF file.ok
                       THEN Called([r EXCEPT !.pc = "save",
                                             !.docs = EnrichAll(file.products, seed)],
                                   "saveObjects")
                       ELSE Catch(Threw(r, "readFile"), file.error))
        /\ UNCHANGED <<storeVars, now, catalog, index, alive>>

\* saveObjects settles.
SaveReturns(s) ==
  LET r == reqs[s] IN
  /\ r.kind = "sync" /\ r.pc = "save"
  /\ \/ /\ Step(s, Catch(Threw(r, "saveObjects"), "index error"))
        /\ UNCHANGED index
     \/ /\ index' = SaveObjects(index, r.docs)
        /\ Step(s, Respond(r, 200, [tag |-> "object", synced |-> Len(r.docs)]))
  /\ UNCHANGED <<storeVars, now, nreq, catalog, alive>>

\* ------------------------------------------------------------- trending
PoolIds ==
  <<"p1", "0012345678908", "p2", "p3", "0012345678923", "p4", "p5",
    "0012345678916", "p6">>

\* A hit as a collaborator returns it; some fields are absent in some hits.
PoolItem(i) ==
  [objectID |-> IF i = 4 THEN Undefined ELSE PoolIds[i],
   code |-> PoolIds[i],
   product_name |-> "name " \o PoolIds[i],
   image_url |-> "img " \o PoolIds[i],
   category |-> "kitchen",
   price |-> IF i % 3 = 0 THEN NoNumber ELSE 100 + i,
   nutriscore_grade |-> IF i % 2 = 0 THEN Undefined ELSE "b",
   environmental_score |-> IF i % 2 = 0 THEN NoNumber ELSE 80 + i,
   environmental_grade |-> IF i % 4 = 0 THEN Undefined ELSE "b",
   environmental_score_data |->
     IF i % 4 = 0 THEN Esd("c", 40 + i) ELSE NoEsd]

\* The hit lists a collaborator may answer with: at most TrendingMax hits.
HitLists ==
  {[k \in 1..n |-> PoolItem(((o + k - 1) % Len(PoolIds)) + 1)] :
     o \in 0..MaxOffset, n \in 0..TrendingMax}

\* trendingItems.map(item => ({...})): one formatted item.
FormatItem(item) ==
  [objectID |-> OrElse(item.objectID, item.code),
   product_name |-> item.product_name,
   image_url |-> item.image_url,
   category |-> item.category,
   price |-> NumOrElse(item.price, 0),
   nutriscore_grade |-> OrElse(item.nutriscore_grade, "a"),
   environmental_score |->
     NumOrElse(item.environmental_score, NumOrElse(EsdScore(item), 0)),
   environmental_grade |->
     OrElse(item.environmental_grade, OrElse(EsdGrade(item), "a")),
   isEcoFriendly |-> TRUE]

FormatItems(hits) == [i \in 1..Len(hits) |-> FormatItem(hits[i])]

FallbackItems ==
  <<[objectID |-> "0012345678908",
     product_name |-> "Reusable Stainless Steel Water Bottle",
     image_url |-> "https://ushashriram.in/cdn/shop/products/41xKdTk3ZDL.jpg?v=1690574251",
     category |-> "kitchen", price |-> 499, nutriscore_grade |-> "a",
     environmental_score |-> 15, environmental_grade |-> "a", isEcoFriendly |-> TRUE],
    [objectID |-> "0012345678923",
     product_name |-> "Zero-Waste Shampoo Bar",
     image_url |-> "https://m.media-amazon.com/images/I/71IddDsisTL.jpg",
     category |-> "personal_care", price |-> 199, nutriscore_grade |-> "a",
     environmental_score |-> 25, environmental_grade |-> "a", isEcoFriendly |-> TRUE],
    [objectID |-> "0012345678916",
     product_name |-> "Reusable Beeswax Food Wraps",
     image_url |-> "https://m.media-amazon.com/images/I/81-cLbynG7L.jpg",
     category |-> "kitchen", price |-> 349, nutriscore_grade |-> "a",
     environmental_score |-> 14, environmental_grade |-> "a", isEcoFriendly |-> TRUE]>>

\* new Map(iterable): every element e contributes the entry e[0] -> e[1].
\* The elements here are item objects, which have no property 0 or 1, so
\* every one of them contributes undefined -> undefined.
NewMap(elements) ==
  IF Len(elements) = 0 THEN <<>>
  ELSE <<[key |-> Undefined, value |-> Undefined]>>

\* The methods and accessors of Map.prototype.
MapPrototype ==
  {"get", "set", "has", "delete", "clear", "forEach", "keys", "values",
   "entries", "size"}

\* [...new Map([...formattedItems, ...fallbackItems]).map(...).values()]
\*   .slice(0, 8)
\* The parenthesis of new Map( closes before .map, so .map is looked up on
\* the Map: it is undefined, and calling it throws a TypeError.
MergeItems(formatted) ==
  LET made == NewMap(formatted \o FallbackItems)
  IN  IF "map" \in MapPrototype
        THEN [threw |-> FALSE, message |-> "", value |-> Slice(made, TrendingMax)]
        ELSE [threw |-> TRUE, message |-> "(intermediate value).map is not a function",
              value |-> <<>>]

\* The outer catch of the trending handler.
TrendingCatch(r, msg) ==
  Respond(r, 500,
          [tag |-> "object", error |-> "Failed to load trending products",
           details |-> msg,
           suggestion |-> "Try refreshing the page or check back later"])

\* The handler from the formatting of trendingItems to its response.
FinishTrending(r, hits) ==
  LET formatted == FormatItems(hits)
      got == [r EXCEPT !.items = formatted]
  IN  IF Len(formatted) < TrendingMax
        THEN LET merged == MergeItems(formatted)
             IN  IF merged.threw
                   THEN TrendingCatch(got, merged.message)
                   ELSE Respond(got, 200, JsonArray(merged.value))
        ELSE Respond(got, 200, JsonArray(Slice(formatted, TrendingMax)))

\* GET /api/recommend/trending, up to the await of getRecommendations.
StartTrending(s) ==
  /\ Accept(s, Called([Idle EXCEPT !.kind = "trending", !.pc = "recommend"],
                      "getRecommendations"))
  /\ UNCHANGED <<storeVars, now, catalog, index, alive>>

\* getRecommendations settles: hits, or the inner catch issues the search.
RecommendReturns(s) ==
  LET r == reqs[s] IN
  /\ r.kind = "trending" /\ r.pc = "recommend"
  /\ \/ Step(s, Called([Threw(r, "getRecommendations") EXCEPT !.pc = "search"], "search"))
     \/ \E hits \in HitLists : Step(s, FinishTrending(r, hits))
  /\ UNCHANGED <<storeVars, now, nreq, catalog, index, alive>>

\* The fallback search settles.
SearchReturns(s) ==
  LET r == reqs[s] IN
  /\ r.kind = "trending" /\ r.pc = "search"
  /\ \/ Step(s, TrendingCatch(Threw(r, "search"), "search failed"))
     \/ \E hits \in HitLists : Step(s, FinishTrending(r, hits))
  /\ UNCHANGED <<storeVars, now, nreq, catalog, index, alive>>

\* ------------------------------------------------------- specifications
\* The shapes a catalog entry comes in: complete, or with one field absent
\* or empty, or without environmental data.
ProductKinds ==
  {Product("A", "X", "i", Undefined, "a", Esd("a", 90)),
   Product("B", "Y", Undefined, "f", "b", Esd("b", 50)),
   Product(Undefined, "X", "i", Undefined, "a", Esd("a", 90)),
   Product("", "X", "i", Undefined, "a", Esd("a", 90)),
   Product("A", Undefined, "i", Undefined, "a", Esd("a", 90)),
   Product("A", "X", Undefined, Undefined, "a", Esd("a", 90)),
   Product("A", "X", "", Undefined, "a", Esd("a", 90)),
   Product("A", "X", "i", Undefined, Undefined, Esd("a", 90)),
   Product("A", "X", "i", Undefined, "", Esd("a", 90)),
   Product("A", "X", "i", Undefined, "a", Esd("unknown", 85)),
   Product("C", "Z", "i", Undefined, "a", NoEsd),
   Product("D", "W", "i", "f", "c", Esd(Undefined, 80))}

\* Catalogs of up to MaxShort entries of every kind.
ShortCatalogs ==
  UNION {[1..n -> ProductKinds] : n \in 0..MaxShort}

\* The catalog entry at position i of a generated catalog: complete and with
\* its own code, except at the positions of holes.
Generated(i, holes) ==
  IF i \notin holes THEN Product(ToString(i), "X", "i", Undefined, "a", Esd("a", 90))
  ELSE IF i = 1 THEN Product(Undefined, "X", "i", Undefined, "a", Esd("a", 90))
  ELSE IF i = 2 THEN Product(ToString(i), "X", "i", Undefined, "a", Esd("unknown", 90))
  ELSE Product(ToString(i), "X", Undefined, Undefined, "a", Esd("a", 90))

\* Catalogs around the page size, so that the page is cut.
LongCatalogs ==
  {[i \in 1..n |-> Generated(i, holes)] :
     n \in (PageSize - 1)..(PageSize + MaxExtra),
     holes \in SUBSET {1, 2, PageSize}}

CatalogFile(products) == [state |-> "ok", products |-> products]

NoCatalog == [state |-> "missing", products |-> <<>>]

BrokenCatalogs ==
  {NoCatalog, [state |-> "badjson", products |-> <<>>],
   [state |-> "noproducts", products |-> <<>>]}

CatalogFiles ==
  BrokenCatalogs \cup {CatalogFile(c) : c \in ShortCatalogs \cup LongCatalogs}

\* The state after the module has loaded and app.listen has been called,
\* with nothing stored yet.
Started ==
  /\ users = {}
  /\ purchases = <<>>
  /\ now = 0
  /\ reqs = [s \in Slots |-> Idle]
  /\ nreq = 0
  /\ recorded = [u \in UserIds |-> 0]
  /\ removed = [u \in UserIds |-> [c \in ProductCodes |-> 0]]
  /\ index = {}
  /\ alive = TRUE
  /\ out = Idle

InitStore == Started /\ budget = MaxRequests /\ catalog = NoCatalog

InitCatalog == Started /\ budget = MaxReads /\ catalog \in CatalogFiles

InitTrending == Started /\ budget = MaxRequests /\ catalog = NoCatalog

Init ==
  /\ Started
  /\ budget = MaxServed
  /\ catalog \in {NoCatalog,
                  CatalogFile(<<Product("A", "X", "i", Undefined, "a", Esd("a", 90)),
                                Product("B", "Y", Undefined, "f", "b", Esd("unknown", 50))>>)}

NextStore ==
  \/ \E s \in Slots : StartPurchase(s)
  \/ \E s \in Slots : GetUserReturns(s)
  \/ \E s \in Slots : UpsertReturns(s)
  \/ \E s \in Slots : InsertReturns(s)
  \/ \E s \in Slots : StartList(s)
  \/ \E s \in Slots : SelectReturns(s)
  \/ \E s \in Slots : StartDelete(s)
  \/ \E s \in Slots : DeleteReturns(s)

NextCatalog ==
  \/ \E s \in Slots : GetProducts(s)
  \/ \E s \in Slots : StartSync(s)
  \/ \E s \in Slots : SaveReturns(s)

NextTrending ==
  \/ \E s \in Slots : StartTrending(s)
  \/ \E s \in Slots : RecommendReturns(s)
  \/ \E s \in Slots : SearchReturns(s)

Next == NextStore \/ NextCatalog \/ NextTrending

\* The purchase handlers, on a store that starts empty.
SpecStore == InitStore /\ [][NextStore]_vars

\* The catalog handlers, for every catalog file.
SpecCatalog == InitCatalog /\ [][NextCatalog]_vars

\* The trending handler.
SpecTrending == InitTrending /\ [][NextTrending]_vars

\* Every handler of the server.
Spec == Init /\ [][Next]_vars

\* =============================================================== claims
\* The rows of ps that belong to user id and product code.
MatchingRows(ps, id, code) ==
  {i \in 1..Len(ps) : ps[i].user_id = id /\ ps[i].product_code = code}

\* How often row occurs in the sequence seq.
Occurrences(seq, row) == Cardinality({i \in 1..Len(seq) : seq[i] = row})

\* The step in which the request of slot s, of the given kind, is answered.
Answers(s, kind) ==
  /\ reqs[s].kind = kind
  /\ reqs'[s].pc = "idle"
  /\ out'.kind = kind

\* ---- C1 ----
\* C1: if POST /api/purchase ends in a store error (the upsert or the insert
\* failed), the request has changed neither the users relation nor the
\* purchases relation.
C1_AllOrNothing ==
  (out.kind = "purchase" /\ out.failed \cap {"upsert", "insert"} # {})
    => (out.status = 500 /\ out.wrote = {})

\* ---- C2 ----
\* seq without the items whose objectID occurred earlier in it.
DedupById(seq) ==
  LET firsts == {i \in 1..Len(seq) :
                   \A j \in 1..(i - 1) : seq[j].objectID # seq[i].objectID}
      pos[k \in 0..Cardinality(firsts)] ==
        IF k = 0 THEN 0 ELSE CHOOSE i \in firsts : i > pos[k - 1] /\
                                \A j \in firsts : j > pos[k - 1] => i <= j
  IN  [k \in 1..Cardinality(firsts) |-> seq[pos[k]]]

\* C2: when the recommendation or search step yields fewer than 8 items,
\* GET /api/recommend/trending succeeds with those items followed by the
\* static fallback list, deduplicated by objectID keeping the first
\* occurrence, cut to 8.
C2_TrendingPadsWithFallback ==
  (out.kind = "trending" /\ "search" \notin out.failed
     /\ Len(out.items) < TrendingMax)
    => /\ out.status = 200
       /\ out.body = JsonArray(Slice(DedupById(out.items \o FallbackItems), TrendingMax))

\* ---- C3 ----
\* The records a successful delete response reports as deleted.
ReportedDeleted(body) == <<body.deleted>>

\* C3: a successful DELETE /api/purchase/:productCode removes exactly the
\* rows of the user with the product code, leaves every other row and the
\* users relation unchanged, and reports every removed row in its response.
C3_DeleteReportsRemoved ==
  [][\A s \in Slots :
       (Answers(s, "delete") /\ out'.status = 200)
         => LET id == reqs[s].userId
                code == reqs[s].productCode
                gone == MatchingRows(purchases, id, code)
                reported == ReportedDeleted(out'.body)
            IN  /\ users' = users
                /\ gone # {}
                /\ \A row \in {purchases[i] : i \in 1..Len(purchases)} :
                     Occurrences(purchases', row) =
                       IF row.user_id = id /\ row.product_code = code
                         THEN 0 ELSE Occurrences(purchases, row)
                /\ Len(purchases') = Len(purchases) - Cardinality(gone)
                /\ Len(reported) = Cardinality(gone)
                /\ \A i \in gone : Occurrences(reported, purchases[i]) > 0]_vars

\* ---- C4 ----
\* C4: a DELETE whose statement the store executed is answered 404 with an
\* error body exactly when no purchase row matches (userId, productCode) at
\* that moment, and a 404 leaves both relations unchanged; a delete the store
\* failed is never answered 404.
C4_NotFoundIffNoMatch ==
  [][\A s \in Slots :
       Answers(s, "delete")
         => LET none == MatchingRows(purchases, reqs[s].userId, reqs[s].productCode) = {}
                executed == "delete" \notin out'.failed
            IN  /\ (out'.status = 404) <=> (executed /\ none)
                /\ out'.status = 404
                     => /\ HasError(out'.body)
                        /\ users' = users
                        /\ purchases' = purchases]_vars

\* A delete is answered 404 for a pair whose row an earlier delete removed.
C4_Witness ==
  /\ out.kind = "delete"
  /\ out.status = 404
  /\ removed[out.userId][out.productCode] > 0

\* ---- C5 ----
\* C5: GET /api/purchases of user u answers with rows of u only, newest
\* first; with no delete of u's rows so far it answers with as many rows as
\* u's purchase inserts that succeeded; with no purchases it answers with
\* the empty array, and it is an error only when the query failed.
C5_ListPurchases ==
  out.kind = "list"
    => LET id == out.userId
           rows == out.rows
           own == {i \in 1..Len(purchases) : purchases[i].user_id = id}
       IN  /\ (out.status = 200) <=> ("select" \notin out.failed)
           /\ out.status = 200 =>
                /\ \A i \in 1..Len(rows) : rows[i].user_id = id
                /\ \A i, j \in 1..Len(rows) :
                     i < j => rows[i].purchased_at >= rows[j].purchased_at
                /\ Len(rows) = Cardinality(own)
                /\ (\A c \in ProductCodes : removed[id][c] = 0)
                     => Len(rows) = recorded[id]
                /\ out.body.tag = "array"
                /\ Len(out.body.elems) = Len(rows)
                /\ \A i \in 1..Len(rows) :
                     /\ out.body.elems[i].product_code = rows[i].product_code
                     /\ out.body.elems[i].product_name = rows[i].product_name
                     /\ out.body.elems[i].price = rows[i].price
                     /\ out.body.elems[i].image_url = rows[i].image_url
                /\ own = {} => out.body.elems = <<>>

\* The list of a user's two purchases, made at different times.
C5_Witness ==
  /\ out.kind = "list"
  /\ out.status = 200
  /\ Len(out.rows) = 2
  /\ out.rows[1].purchased_at > out.rows[2].purchased_at
  /\ recorded[out.userId] = 2

\* ---- C6 ----
\* The step in which the user upsert of slot s has succeeded.
Upserted(s) ==
  /\ reqs[s].kind = "purchase"
  /\ reqs[s].pc = "upsert"
  /\ reqs'[s].pc = "insert"

\* C6: the users relation never holds two rows of one id; a successful
\* upsert leaves exactly one row of its user, with the email of that call,
\* and changes no other user's row.
C6_UpsertIdempotent ==
  [][/\ \A u \in UserIds : Cardinality({r \in users' : r.id = u}) <= 1
     /\ \A s \in Slots :
          Upserted(s)
            => /\ {r \in users' : r.id = reqs[s].userId}
                    = {[id |-> reqs[s].userId, email |-> reqs[s].email]}
               /\ {r \in users' : r.id # reqs[s].userId}
                    = {r \in users : r.id # reqs[s].userId}]_vars

\* A request has upserted its user with one email, and a later upsert of the
\* same user has replaced it with another.
C6_Witness ==
  \E s \in Slots :
    /\ reqs[s].pc = "insert"
    /\ \E r \in users : r.id = reqs[s].userId /\ r.email # reqs[s].email
    /\ Cardinality({r \in users : r.id = reqs[s].userId}) = 1

\* ---- C7 ----
\* C7: when no email is resolved for the user, POST /api/purchase is
\* answered 500 with an error body, issues neither the upsert nor the
\* insert, and has written nothing.
C7_NoEmailNoWrite ==
  (out.kind = "purchase" /\ ~Truthy(out.email))
    => /\ out.status = 500
       /\ HasError(out.body)
       /\ out.calls = <<"getUser">>
       /\ out.wrote = {}

\* The identity provider answered, with no email address.
C7_Witness ==
  /\ out.kind = "purchase"
  /\ out.email = Undefined
  /\ out.failed = {}
  /\ out.status = 500

\* ---- C8 ----
\* A displayable product: non-empty code, name and nutrition grade, at least
\* one image reference, and an environmental grade that is not "unknown"
\* (a product without an environmental grade has none that is "unknown").
Displayable(p) ==
  /\ p.code # Undefined /\ p.code # ""
  /\ p.product_name # Undefined /\ p.product_name # ""
  /\ \/ (p.image_url # Undefined /\ p.image_url # "")
     \/ (p.image_front_url # Undefined /\ p.image_front_url # "")
  /\ p.nutriscore_grade # Undefined /\ p.nutriscore_grade # ""
  /\ ~(p.environmental_score_data.present
         /\ p.environmental_score_data.grade = "unknown")

\* C8: for every readable catalog, GET /api/products answers with the first
\* min(50, d) displayable products in catalog order, d being the number of
\* displayable products, and with nothing else.
C8_ProductsPage ==
  (out.kind = "products" /\ catalog.state = "ok")
    => LET all == catalog.products
           shown == {i \in 1..Len(all) : Displayable(all[i])}
           rank(i) == Cardinality({j \in shown : j <= i})
           page == out.body.elems
       IN  /\ out.status = 200
           /\ out.body.tag = "array"
           /\ Len(page) = Min(PageSize, Cardinality(shown))
           /\ \A k \in 1..Len(page) :
                \E i \in shown : rank(i) = k /\ page[k] = all[i]

\* More than a page of displayable products, around one that is not.
C8_Witness ==
  /\ out.kind = "products"
  /\ out.status = 200
  /\ Len(out.body.elems) = PageSize
  /\ Cardinality({i \in 1..Len(catalog.products) :
                    Displayable(catalog.products[i])}) > PageSize
  /\ \E i \in 1..Len(catalog.products) : ~Displayable(catalog.products[i])

\* ---- C9 ----
\* No external call occurs twice among the calls of a request.
NoRetry(calls) ==
  \A i, j \in 1..Len(calls) : calls[i] = calls[j] => i = j

\* C9 as stated: a request in which any external call failed is answered
\* once, with an error status and an error body, after no retry, and the
\* server keeps running.
C9_EveryFailureIsAnError ==
  /\ alive
  /\ (out.kind # "idle" /\ out.failed # {})
       => /\ out.sent = 1
          /\ out.status >= 400
          /\ HasError(out.body)
          /\ NoRetry(out.calls)

\* C9 as amended: every request is answered once and retries no call, and
\* the server keeps running with the slot free again; a failed call other
\* than the recommendation query ends the request with status 500 and an
\* error body; a failed recommendation query makes the handler issue the
\* search query once instead.
C9_FailuresAreTerminal ==
  /\ alive
  /\ \A s \in Slots : reqs[s].sent = 0 /\ NoRetry(reqs[s].calls)
  /\ out.kind # "idle"
       => /\ out.sent = 1
          /\ NoRetry(out.calls)
          /\ \E s \in Slots : reqs[s] = Idle
          /\ out.failed \ {"getRecommendations"} # {}
               => (out.status = 500 /\ HasError(out.body))
          /\ "getRecommendations" \in out.failed
               => Occurrences(out.calls, "search") = 1

\* Both the recommendation query and the search query have failed.
C9_Witness ==
  /\ out.kind = "trending"
  /\ out.failed = {"getRecommendations", "search"}
  /\ out.status = 500

\* ---- C10 ----
\* C10: every purchase row belongs to an existing user row, in every state
\* of every interleaving; a request that awaits its purchase insert has its
\* user row, and no request issues the insert before the upsert.
C10_ReferentialIntegrity ==
  /\ \A i \in 1..Len(purchases) : \E r \in users : r.id = purchases[i].user_id
  /\ \A s \in Slots :
       reqs[s].pc = "insert"
         => /\ \E r \in users : r.id = reqs[s].userId
            /\ reqs[s].calls = <<"getUser", "upsert", "insert">>
  /\ (out.kind = "purchase" /\ \E i \in 1..Len(out.calls) : out.calls[i] = "insert")
       => out.calls = <<"getUser", "upsert", "insert">>

\* A purchase is stored, one request has failed between its two writes, and
\* another is between its two writes.
C10_Witness ==
  /\ Len(purchases) >= 1
  /\ out.kind = "purchase" /\ out.failed = {"insert"}
  /\ \E s \in Slots : reqs[s].pc = "insert"
====
